---- MODULE Spec2Model ----
(***************************************************************************)
(* Process scheduling simulator (src/app.py): the scheduling engine of     *)
(* ProcessSchedulerGUI.  One run: start_simulation validates the entry     *)
(* fields and starts the simulation thread, run_simulation generates the   *)
(* process list and runs the loop of the selected policy, show_results     *)
(* computes the metrics.                                                   *)
(*                                                                         *)
(* Process objects are shared by reference between self.processes, the     *)
(* ready queue and self.completed_processes: the model keeps the records   *)
(* in pcb (indexed by process_id) and the three lists hold process ids.    *)
(*                                                                         *)
(* Every loop iteration that runs a process is two steps: the dispatch     *)
(* (top of the loop up to the append to gantt_data) and the execution      *)
(* (clock advance, completion or re-queue).  An idle iteration is one step.*)
(***************************************************************************)
EXTENDS Integers, Sequences, FiniteSets, TLC

\* ------------------------------------------------------------------ bounds
\* Largest num_processes, arrival time, burst time, priority and quantum
\* the entry fields are given in the modelled runs.
MaxProcs == 2
MaxArrival == 2
MaxBurst == 2
MaxPriority == 2
MaxQuantum == 2

\* ------------------------------------------------------- program constants
\* Python's None, for the unset start/completion/response time.
None == -1
\* start_simulation's limits.
MaxNumProcesses == 100
MaxBurstAllowed == 1000
MaxArrivalAllowed == 10000

Policies == {"fcfs", "sjf", "srtf", "rr", "priority", "priority_preemptive"}

VARIABLES
    algorithm,            \* self.algorithm_var
    args,                 \* arguments of the thread's run_simulation, until used
    quantum,              \* parameter of simulate_round_robin (0: not that policy)
    pcb,                  \* the Process objects, by process_id
    processes,            \* self.processes: ids, in list order
    completed_processes,  \* self.completed_processes: ids, in list order
    time_points,          \* self.time_points
    ready_queue_data,     \* self.ready_queue_data
    gantt_data,           \* self.gantt_data: <<start, process_id, duration>>
    simulation_running,   \* self.simulation_running
    ready_queue,          \* local ready_queue of the running policy: ids
    current_time,         \* local current_time
    process_index,        \* local process_index (0-based)
    current_process,      \* local current_process (0: None)
    process,              \* local process, the one dispatched (0: none)
    pc,                   \* where the run is
    idle_steps,           \* history: iterations that took the idle branch
    results,              \* what show_results computed
    error,                \* error box of the last start_simulation ("": none)
    window,               \* self.root: "open" until on_closing destroys it
    earlier,              \* the thread of an earlier run that is still alive:
                          \* its arguments, locals and position (NoThread: none)
    consolidated          \* plot_gantt_chart: the segments of the chart drawn last

vars == <<algorithm, args, quantum, pcb, processes, completed_processes,
          time_points, ready_queue_data, gantt_data, simulation_running,
          ready_queue, current_time, process_index, current_process, process,
          pc, idle_steps, results, error, window, earlier, consolidated>>

run_data == <<pcb, processes, completed_processes, time_points,
              ready_queue_data, gantt_data>>
loop_locals == <<ready_queue, current_time, process_index, current_process,
                 process>>

NoArgs == [num_processes |-> 0]
NoThread == [pc |-> "none"]
NoResults == [shown |-> FALSE]

\* ---------------------------------------------------------------- helpers
Min(a, b) == IF a <= b THEN a ELSE b
Max(a, b) == IF a >= b THEN a ELSE b

RECURSIVE SumSeq(_)
SumSeq(s) == IF s = <<>> THEN 0 ELSE Head(s) + SumSeq(Tail(s))

MaxSeq(s) == CHOOSE m \in {s[i] : i \in DOMAIN s} : \A i \in DOMAIN s : s[i] <= m

Last(s) == s[Len(s)]

\* class Process: the record __init__ builds.
Process(arrival_time, process_id) ==
    [process_id |-> process_id,
     arrival_time |-> arrival_time,
     burst_time |-> None,
     remaining_time |-> None,
     priority |-> None,
     start_time |-> None,
     completion_time |-> None,
     waiting_time |-> 0,
     turnaround_time |-> 0,
     response_time |-> None,
     state |-> "NEW"]

\* list.sort(key=...): stable, ascending.  K maps a process id to its key.
\* The element at position i goes behind the elements with a smaller key and
\* the elements before it with an equal key.
SortedPosition(q, K, i) ==
    1 + Cardinality({j \in DOMAIN q :
                        \/ K[q[j]] < K[q[i]]
                        \/ K[q[j]] = K[q[i]] /\ j < i})

\* Mutant of StableSort: descending.
StableSortReversed(q, K) ==
    [k \in DOMAIN q |->
        q[CHOOSE i \in DOMAIN q : SortedPosition(q, K, i) = Len(q) + 1 - k]]

\* Mutant of StableSort: equal keys are ordered by process id.
StableSortById(q, K) ==
    [k \in DOMAIN q |->
        q[CHOOSE i \in DOMAIN q :
            k = 1 + Cardinality({j \in DOMAIN q :
                                    \/ K[q[j]] < K[q[i]]
                                    \/ K[q[j]] = K[q[i]] /\ q[j] < q[i]})]]

StableSort(q, K) ==
    [k \in DOMAIN q |-> q[CHOOSE i \in DOMAIN q : SortedPosition(q, K, i) = k]]

\* ------------------------------------------------------------------- Init
Init ==
    /\ algorithm = "fcfs"
    /\ args = NoArgs
    /\ quantum = 0
    /\ pcb = <<>>
    /\ processes = <<>>
    /\ completed_processes = <<>>
    /\ time_points = <<>>
    /\ ready_queue_data = <<>>
    /\ gantt_data = <<>>
    /\ simulation_running = FALSE
    /\ ready_queue = <<>>
    /\ current_time = 0
    /\ process_index = 0
    /\ current_process = 0
    /\ process = 0
    /\ pc = "idle"
    /\ idle_steps = 0
    /\ results = NoResults
    /\ error = ""
    /\ window = "open"
    /\ earlier = NoThread
    /\ consolidated = <<>>

\* ------------------------------------------------ entry fields and inputs
\* Test vectors of the specification, as <<arrival_time, burst_time>> in
\* process_id order, and the quantum named with the third.
FCFSExample == << <<0, 5>>, <<1, 3>> >>
SJFExample == << <<0, 8>>, <<1, 4>>, <<2, 9>>, <<3, 5>> >>
RRExample == << <<0, 10>>, <<1, 4>>, <<2, 5>> >>
RRExampleQuantum == [quantum |-> 3]
\* A three-process draw whose ids run against the arrival order.
LateIdsExample == << <<2, 1>>, <<1, 1>>, <<0, 2>> >>
Examples == {FCFSExample, SJFExample, RRExample, LateIdsExample}

SeqMin(s, k) == CHOOSE m \in {s[i][k] : i \in DOMAIN s} : \A i \in DOMAIN s : m <= s[i][k]
SeqMax(s, k) == CHOOSE m \in {s[i][k] : i \in DOMAIN s} : \A i \in DOMAIN s : m >= s[i][k]

\* What the entry fields hold when Start is pressed: every setting up to the
\* bounds (with the values just outside the accepted ranges), the settings
\* past start_simulation's upper limits, a non-numeric entry, and the
\* settings whose ranges span a test vector or the three-process draw.
BoundedFields ==
    [numeric : {TRUE},
     num_processes : 0..MaxProcs,
     arrival_min : (-1)..MaxArrival, arrival_max : 0..MaxArrival,
     burst_min : 0..MaxBurst, burst_max : 1..MaxBurst,
     priority_min : 0..MaxPriority, priority_max : 1..MaxPriority,
     quantum : 0..MaxQuantum]

DefaultFields ==
    [numeric |-> TRUE, num_processes |-> 1, arrival_min |-> 0, arrival_max |-> 0,
     burst_min |-> 1, burst_max |-> 1, priority_min |-> 1, priority_max |-> 1,
     quantum |-> 1]

LimitFields ==
    {[DefaultFields EXCEPT !.num_processes = MaxNumProcesses + 1],
     [DefaultFields EXCEPT !.burst_max = MaxBurstAllowed + 1],
     [DefaultFields EXCEPT !.arrival_max = MaxArrivalAllowed + 1],
     [DefaultFields EXCEPT !.numeric = FALSE]}

ExampleFields ==
    {[numeric |-> TRUE, num_processes |-> Len(ex),
      arrival_min |-> SeqMin(ex, 1), arrival_max |-> SeqMax(ex, 1),
      burst_min |-> SeqMin(ex, 2), burst_max |-> SeqMax(ex, 2),
      priority_min |-> pr[1], priority_max |-> pr[2], quantum |-> q] :
        ex \in Examples,
        pr \in {r \in (1..MaxPriority) \X (1..MaxPriority) : r[1] <= r[2]},
        q \in (1..MaxQuantum) \cup {RRExampleQuantum.quantum}}

EntryFields == BoundedFields \cup LimitFields \cup ExampleFields

\* The selected policy with the entry fields.  The modelled settings give the
\* priority a range of more than one value only under the two Priority
\* policies, and a quantum other than the default only under Round Robin:
\* no other policy reads them.
Settings ==
    {s \in Policies \X EntryFields :
        /\ s[1] \notin {"priority", "priority_preemptive"}
              => s[2].priority_min = s[2].priority_max
        /\ s[1] # "rr" => s[2].quantum = DefaultFields.quantum}

\* Mutant of ValidationError: the time quantum is not checked.
ValidationErrorAnyQuantum(f) ==
    IF ~f.numeric THEN "Please enter valid numbers"
    ELSE IF \/ f.arrival_min > f.arrival_max
            \/ f.burst_min > f.burst_max
            \/ f.priority_min > f.priority_max
         THEN "Min values must be <= max values"
    ELSE IF f.num_processes < 1 \/ f.num_processes > MaxNumProcesses
         THEN "Number of processes must be between 1 and 100"
    ELSE IF f.arrival_min < 0 \/ f.arrival_max < 0
         THEN "Arrival times must be non-negative"
    ELSE IF f.burst_min <= 0 \/ f.burst_max <= 0
         THEN "Burst times must be positive"
    ELSE IF f.priority_min <= 0 \/ f.priority_max <= 0
         THEN "Priority values must be positive"
    ELSE IF f.burst_max > MaxBurstAllowed
         THEN "Burst time too large (max 1000ms)"
    ELSE IF f.arrival_max > MaxArrivalAllowed
         THEN "Arrival time too large (max 10000ms)"
    ELSE ""

\* start_simulation's validation: the text of the error box, "" when the
\* fields are accepted.
ValidationError(f) ==
    IF ~f.numeric THEN "Please enter valid numbers"
    ELSE IF \/ f.arrival_min > f.arrival_max
            \/ f.burst_min > f.burst_max
            \/ f.priority_min > f.priority_max
         THEN "Min values must be <= max values"
    ELSE IF f.num_processes < 1 \/ f.num_processes > MaxNumProcesses
         THEN "Number of processes must be between 1 and 100"
    ELSE IF f.arrival_min < 0 \/ f.arrival_max < 0
         THEN "Arrival times must be non-negative"
    ELSE IF f.burst_min <= 0 \/ f.burst_max <= 0
         THEN "Burst times must be positive"
    ELSE IF f.priority_min <= 0 \/ f.priority_max <= 0
         THEN "Priority values must be positive"
    ELSE IF f.quantum <= 0
         THEN "Time quantum must be positive"
    ELSE IF f.burst_max > MaxBurstAllowed
         THEN "Burst time too large (max 1000ms)"
    ELSE IF f.arrival_max > MaxArrivalAllowed
         THEN "Arrival time too large (max 10000ms)"
    ELSE ""

\* The outcomes of generate_processes' random.randint calls the model
\* follows, as <<arrival_time, burst_time, priority>> per process id: every
\* outcome within the ranges up to the bounds, and the test vectors that lie
\* within the ranges.
BoundedDraws(a) ==
    IF a.num_processes > MaxProcs THEN {}
    ELSE [1..a.num_processes ->
            (a.arrival_min..Min(a.arrival_max, MaxArrival))
            \X (a.burst_min..Min(a.burst_max, MaxBurst))
            \X (a.priority_min..Min(a.priority_max, MaxPriority))]

ExampleDraws(a) ==
    UNION {{[i \in 1..Len(ex) |-> <<ex[i][1], ex[i][2], pr[i]>>] :
               pr \in [1..Len(ex) -> a.priority_min..Min(a.priority_max, MaxPriority)]} :
           ex \in {e \in Examples :
                     /\ Len(e) = a.num_processes
                     /\ \A i \in DOMAIN e :
                          /\ a.arrival_min <= e[i][1] /\ e[i][1] <= a.arrival_max
                          /\ a.burst_min <= e[i][2] /\ e[i][2] <= a.burst_max}}

Draws(a) == BoundedDraws(a) \cup ExampleDraws(a)

\* Mutant of GeneratedPcb: the clamp raises every burst below 2.
GeneratedPcbClampTwo(d) ==
    [i \in 1..Len(d) |->
        [Process(d[i][1], i) EXCEPT !.burst_time = Max(2, d[i][2]),
                                    !.remaining_time = Max(2, d[i][2]),
                                    !.priority = d[i][3]]]

\* generate_processes: the records, by id.
GeneratedPcb(d) ==
    [i \in 1..Len(d) |->
        [Process(d[i][1], i) EXCEPT !.burst_time = Max(1, d[i][2]),
                                    !.remaining_time = Max(1, d[i][2]),
                                    !.priority = d[i][3]]]

\* Mutant of generate_processes: the list is left in id order.
generate_processes_unsorted(d) == [i \in 1..Len(d) |-> i]

\* generate_processes: the list, sorted by arrival time (stable).
generate_processes(d) ==
    StableSort([i \in 1..Len(d) |-> i], [i \in 1..Len(d) |-> d[i][1]])

\* ------------------------------------------------------- start_simulation
\* reset_data
ResetData ==
    /\ pcb' = <<>>
    /\ processes' = <<>>
    /\ completed_processes' = <<>>
    /\ time_points' = <<>>
    /\ ready_queue_data' = <<>>
    /\ gantt_data' = <<>>

\* The error boxes start_simulation shows on the entry fields it rejects.
ErrorMessages == {ValidationError(f) : f \in EntryFields} \ {""}

\* Mutant of Reject: the data of the last run is cleared before the fields
\* are validated.
RejectAfterReset(stage) ==
    /\ pc = stage
    /\ window = "open"
    /\ \E message \in ErrorMessages : error' = message
    /\ ResetData
    /\ UNCHANGED <<algorithm, args, quantum, simulation_running,
                   loop_locals, pc, idle_steps, results, window, earlier,
                   consolidated>>

\* start_simulation on rejected fields, pressed at the given stage: the
\* error box and nothing else.
Reject(stage) ==
    /\ pc = stage
    /\ window = "open"
    /\ \E message \in ErrorMessages : error' = message
    /\ UNCHANGED <<algorithm, args, quantum, run_data, simulation_running,
                   loop_locals, pc, idle_steps, results, window, earlier,
                   consolidated>>

\* Start pressed with rejected fields before any run.
RejectInput == Reject("idle")

\* Start pressed with rejected fields after a run has shown its results.
RejectInputAfterRun == Reject("results")

\* start_simulation on accepted fields: reset_data, the flag, the thread.
start_simulation ==
    /\ pc = "idle"
    /\ window = "open"
    /\ \E s \in Settings :
         /\ ValidationError(s[2]) = ""
         /\ algorithm' = s[1]
         /\ args' = s[2]
    /\ ResetData
    /\ simulation_running' = TRUE
    /\ error' = ""
    /\ pc' = "generate"
    /\ UNCHANGED <<quantum, loop_locals, idle_steps, results, window, earlier,
                   consolidated>>

\* run_simulation up to the call of the policy: generate_processes, and the
\* locals of the policy's function.
run_simulation ==
    /\ pc = "generate"
    /\ \E d \in Draws(args) :
         /\ pcb' = pcb \o GeneratedPcb(d)
         /\ processes' = [k \in DOMAIN d |-> Len(pcb) + generate_processes(d)[k]]
    /\ quantum' = IF algorithm = "rr" THEN args.quantum ELSE 0
    /\ args' = NoArgs
    /\ ready_queue' = <<>>
    /\ current_time' = 0
    /\ process_index' = 0
    /\ current_process' = 0
    /\ process' = 0
    /\ pc' = "loop"
    /\ UNCHANGED <<algorithm, completed_processes, time_points,
                   ready_queue_data, gantt_data, simulation_running,
                   idle_steps, results, error, window, earlier, consolidated>>

\* ------------------------------------------------- shared steps of a loop
\* "Add newly arrived processes": the inner while loop, from index i at
\* clock t, on records P and queue q.
RECURSIVE AdmitArrivalsFront(_, _, _, _)
\* Mutant of AdmitArrivals: an arrival is put at the head of the queue.
AdmitArrivalsFront(P, q, i, t) ==
    IF i < Len(processes) /\ P[processes[i + 1]].arrival_time <= t
    THEN AdmitArrivalsFront([P EXCEPT ![processes[i + 1]].state = "READY"],
                            <<processes[i + 1]>> \o q, i + 1, t)
    ELSE [pcb |-> P, ready_queue |-> q, process_index |-> i]

RECURSIVE AdmitArrivalsStrict(_, _, _, _)
\* Mutant of AdmitArrivals: a process is admitted only after its arrival.
AdmitArrivalsStrict(P, q, i, t) ==
    IF i < Len(processes) /\ P[processes[i + 1]].arrival_time < t
    THEN AdmitArrivalsStrict([P EXCEPT ![processes[i + 1]].state = "READY"],
                             Append(q, processes[i + 1]), i + 1, t)
    ELSE [pcb |-> P, ready_queue |-> q, process_index |-> i]

RECURSIVE AdmitArrivalsEarly(_, _, _, _)
\* Mutant of AdmitArrivals: a process is admitted one unit ahead of its
\* arrival.
AdmitArrivalsEarly(P, q, i, t) ==
    IF i < Len(processes) /\ P[processes[i + 1]].arrival_time <= t + 1
    THEN AdmitArrivalsEarly([P EXCEPT ![processes[i + 1]].state = "READY"],
                            Append(q, processes[i + 1]), i + 1, t)
    ELSE [pcb |-> P, ready_queue |-> q, process_index |-> i]

RECURSIVE AdmitArrivals(_, _, _, _)
AdmitArrivals(P, q, i, t) ==
    IF i < Len(processes) /\ P[processes[i + 1]].arrival_time <= t
    THEN AdmitArrivals([P EXCEPT ![processes[i + 1]].state = "READY"],
                       Append(q, processes[i + 1]), i + 1, t)
    ELSE [pcb |-> P, ready_queue |-> q, process_index |-> i]

\* Mutant of FirstRun: the times are written at every dispatch.
FirstRunAlways(P, p, t) ==
    [P EXCEPT ![p].start_time = t,
              ![p].response_time = t - P[p].arrival_time]

\* Mutant of FirstRun: the response time is left unset.
FirstRunNoResponse(P, p, t) ==
    IF P[p].start_time = None
    THEN [P EXCEPT ![p].start_time = t]
    ELSE P

\* "if process.start_time is None": start and response time of process p
\* dispatched at clock t.
FirstRun(P, p, t) ==
    IF P[p].start_time = None
    THEN [P EXCEPT ![p].start_time = t,
                   ![p].response_time = t - P[p].arrival_time]
    ELSE P

\* Mutant of Complete: the turnaround is counted from the start time.
CompleteFromStart(P, p, t) ==
    [P EXCEPT ![p].state = "TERMINATED",
              ![p].completion_time = t,
              ![p].turnaround_time = t - P[p].start_time,
              ![p].waiting_time = (t - P[p].start_time) - P[p].burst_time]

\* Mutant of Complete: the completion is stamped one unit late.
CompleteOneLate(P, p, t) ==
    [P EXCEPT ![p].state = "TERMINATED",
              ![p].completion_time = t + 1,
              ![p].turnaround_time = (t + 1) - P[p].arrival_time,
              ![p].waiting_time = ((t + 1) - P[p].arrival_time) - P[p].burst_time]

\* Mutant of Complete: the turnaround is counted from clock value 0.
CompleteFromZero(P, p, t) ==
    [P EXCEPT ![p].state = "TERMINATED",
              ![p].completion_time = t,
              ![p].turnaround_time = t,
              ![p].waiting_time = t - P[p].burst_time]

\* Mutant of Complete: the state is left as it was.
CompleteKeepsState(P, p, t) ==
    [P EXCEPT ![p].completion_time = t,
              ![p].turnaround_time = t - P[p].arrival_time,
              ![p].waiting_time = (t - P[p].arrival_time) - P[p].burst_time]

\* "Process completed": the record of p completing at clock t.
Complete(P, p, t) ==
    [P EXCEPT ![p].state = "TERMINATED",
              ![p].completion_time = t,
              ![p].turnaround_time = t - P[p].arrival_time,
              ![p].waiting_time = (t - P[p].arrival_time) - P[p].burst_time]

\* Mutant of IdleAdvance: the idle branch leaves the clock alone.
IdleAdvanceNone(t) == t

\* Mutant of IdleAdvance: the idle branch skips two units.
IdleAdvanceTwo(t) == t + 2

\* The idle branch: "current_time += 1".
IdleAdvance(t) == t + 1

\* Mutant of RecordMetrics: the queue is sampled after the selection has
\* taken its process out.
RecordMetricsAfterPop(t, q) ==
    /\ time_points' = Append(time_points, t)
    /\ ready_queue_data' = Append(ready_queue_data, Max(Len(q) - 1, 0))

\* "Record metrics": one sample of the ready-queue length q at clock t.
RecordMetrics(t, q) ==
    /\ time_points' = Append(time_points, t)
    /\ ready_queue_data' = Append(ready_queue_data, Len(q))

\* The condition of the policy's while loop.
LoopCondition ==
    \/ Len(completed_processes) < Len(processes)
    \/ algorithm = "srtf" /\ current_process # 0
    \/ algorithm = "priority_preemptive" /\ current_process # 0

\* The clock value no run of its own reaches before its loop ends: the last
\* arrival and then every burst, one after the other.  A thread whose loop
\* goes on past it, as it can when two threads share the lists, is followed
\* no further.
ClockLimit ==
    MaxSeq([i \in DOMAIN pcb |-> pcb[i].arrival_time])
    + SumSeq([i \in DOMAIN pcb |-> pcb[i].burst_time])

\* Mutant of IterationStarts: the cancellation check is left out.
IterationStartsUnchecked(alg) ==
    /\ pc = "loop"
    /\ algorithm = alg
    /\ LoopCondition
    /\ current_time <= ClockLimit

\* An iteration starts: the while condition and the cancellation check.
IterationStarts(alg) ==
    /\ pc = "loop"
    /\ algorithm = alg
    /\ LoopCondition
    /\ simulation_running
    /\ current_time <= ClockLimit

SliceRuns(alg) ==
    /\ pc = "slice"
    /\ algorithm = alg

\* ---------------------------------------------------------- simulate_fcfs
fcfs_dispatch ==
    /\ IterationStarts("fcfs")
    /\ LET a == AdmitArrivals(pcb, ready_queue, process_index, current_time) IN
         /\ a.ready_queue # <<>>
         /\ RecordMetrics(current_time, a.ready_queue)
         /\ LET p == Head(a.ready_queue) IN
              /\ ready_queue' = Tail(a.ready_queue)
              /\ pcb' = FirstRun([a.pcb EXCEPT ![p].state = "RUNNING"], p, current_time)
              /\ gantt_data' = Append(gantt_data, <<current_time, p, pcb[p].burst_time>>)
              /\ process' = p
         /\ process_index' = a.process_index
    /\ pc' = "slice"
    /\ UNCHANGED <<algorithm, args, quantum, processes, completed_processes,
                   simulation_running, current_time, current_process,
                   idle_steps, results, error, window, earlier, consolidated>>

fcfs_execute ==
    /\ SliceRuns("fcfs")
    /\ current_time' = current_time + pcb[process].burst_time
    /\ pcb' = Complete(pcb, process, current_time')
    /\ completed_processes' = Append(completed_processes, process)
    /\ process' = 0
    /\ pc' = "loop"
    /\ UNCHANGED <<algorithm, args, quantum, processes, time_points,
                   ready_queue_data, gantt_data, simulation_running,
                   ready_queue, process_index, current_process, idle_steps,
                   results, error, window, earlier, consolidated>>

fcfs_idle ==
    /\ IterationStarts("fcfs")
    /\ LET a == AdmitArrivals(pcb, ready_queue, process_index, current_time) IN
         /\ a.ready_queue = <<>>
         /\ RecordMetrics(current_time, a.ready_queue)
         /\ pcb' = a.pcb
         /\ ready_queue' = a.ready_queue
         /\ process_index' = a.process_index
    /\ current_time' = IdleAdvance(current_time)
    /\ idle_steps' = idle_steps + 1
    /\ UNCHANGED <<algorithm, args, quantum, processes, completed_processes,
                   gantt_data, simulation_running, current_process, process,
                   pc, results, error, window, earlier, consolidated>>

\* ----------------------------------------------------------- simulate_sjf
\* Mutant of BurstKey: the queue is sorted by arrival time.
BurstKeyArrival(P) == [i \in DOMAIN P |-> P[i].arrival_time]

\* "ready_queue.sort(key=lambda p: p.burst_time)"
BurstKey(P) == [i \in DOMAIN P |-> P[i].burst_time]

sjf_dispatch ==
    /\ IterationStarts("sjf")
    /\ LET a == AdmitArrivals(pcb, ready_queue, process_index, current_time) IN
         /\ a.ready_queue # <<>>
         /\ RecordMetrics(current_time, a.ready_queue)
         /\ LET sorted == StableSort(a.ready_queue, BurstKey(a.pcb))
                p == Head(sorted) IN
              /\ ready_queue' = Tail(sorted)
              /\ pcb' = FirstRun([a.pcb EXCEPT ![p].state = "RUNNING"], p, current_time)
              /\ gantt_data' = Append(gantt_data, <<current_time, p, pcb[p].burst_time>>)
              /\ process' = p
         /\ process_index' = a.process_index
    /\ pc' = "slice"
    /\ UNCHANGED <<algorithm, args, quantum, processes, completed_processes,
                   simulation_running, current_time, current_process,
                   idle_steps, results, error, window, earlier, consolidated>>

sjf_execute ==
    /\ SliceRuns("sjf")
    /\ current_time' = current_time + pcb[process].burst_time
    /\ pcb' = Complete(pcb, process, current_time')
    /\ completed_processes' = Append(completed_processes, process)
    /\ process' = 0
    /\ pc' = "loop"
    /\ UNCHANGED <<algorithm, args, quantum, processes, time_points,
                   ready_queue_data, gantt_data, simulation_running,
                   ready_queue, process_index, current_process, idle_steps,
                   results, error, window, earlier, consolidated>>

sjf_idle ==
    /\ IterationStarts("sjf")
    /\ LET a == AdmitArrivals(pcb, ready_queue, process_index, current_time) IN
         /\ a.ready_queue = <<>>
         /\ RecordMetrics(current_time, a.ready_queue)
         /\ pcb' = a.pcb
         /\ ready_queue' = a.ready_queue
         /\ process_index' = a.process_index
    /\ current_time' = IdleAdvance(current_time)
    /\ idle_steps' = idle_steps + 1
    /\ UNCHANGED <<algorithm, args, quantum, processes, completed_processes,
                   gantt_data, simulation_running, current_process, process,
                   pc, results, error, window, earlier, consolidated>>

\* ---------------------------------------------------------- simulate_srtf
\* Mutant of RemainingKey: the queue is sorted by arrival time.
RemainingKeyArrival(P) == [i \in DOMAIN P |-> P[i].arrival_time]

\* "ready_queue.sort(key=lambda p: p.remaining_time)"
RemainingKey(P) == [i \in DOMAIN P |-> P[i].remaining_time]

\* "Add current process back to queue for comparison": records and queue.
SrtfRequeue(a) ==
    IF current_process # 0 /\ a.pcb[current_process].remaining_time > 0
    THEN [pcb |-> [a.pcb EXCEPT ![current_process].state = "READY"],
          ready_queue |-> Append(a.ready_queue, current_process)]
    ELSE [pcb |-> a.pcb, ready_queue |-> a.ready_queue]

\* "Only update state if it's a different process": p taken from the queue.
SrtfSwitch(P, p, t) ==
    IF p # current_process
    THEN FirstRun([(IF current_process # 0
                    THEN [P EXCEPT ![current_process].state = "READY"]
                    ELSE P) EXCEPT ![p].state = "RUNNING"], p, t)
    ELSE P

srtf_dispatch ==
    /\ IterationStarts("srtf")
    /\ LET a == AdmitArrivals(pcb, ready_queue, process_index, current_time)
           b == SrtfRequeue(a) IN
         /\ b.ready_queue # <<>>
         /\ RecordMetrics(current_time, b.ready_queue)
         /\ LET sorted == StableSort(b.ready_queue, RemainingKey(b.pcb))
                p == Head(sorted) IN
              /\ ready_queue' = Tail(sorted)
              /\ pcb' = SrtfSwitch(b.pcb, p, current_time)
              /\ current_process' = p
              /\ gantt_data' = Append(gantt_data, <<current_time, p, 1>>)
              /\ process' = p
         /\ process_index' = a.process_index
    /\ pc' = "slice"
    /\ UNCHANGED <<algorithm, args, quantum, processes, completed_processes,
                   simulation_running, current_time, idle_steps, results,
                   error, window, earlier, consolidated>>

srtf_execute ==
    /\ SliceRuns("srtf")
    /\ current_time' = current_time + 1
    /\ LET P == [pcb EXCEPT ![process].remaining_time = @ - 1] IN
         IF P[process].remaining_time = 0
         THEN /\ pcb' = Complete(P, process, current_time')
              /\ completed_processes' = Append(completed_processes, process)
              /\ current_process' = 0
         ELSE /\ pcb' = P
              /\ UNCHANGED <<completed_processes, current_process>>
    /\ process' = 0
    /\ pc' = "loop"
    /\ UNCHANGED <<algorithm, args, quantum, processes, time_points,
                   ready_queue_data, gantt_data, simulation_running,
                   ready_queue, process_index, idle_steps, results,
                   error, window, earlier, consolidated>>

srtf_idle ==
    /\ IterationStarts("srtf")
    /\ LET a == AdmitArrivals(pcb, ready_queue, process_index, current_time)
           b == SrtfRequeue(a) IN
         /\ b.ready_queue = <<>>
         /\ RecordMetrics(current_time, b.ready_queue)
         /\ pcb' = b.pcb
         /\ ready_queue' = b.ready_queue
         /\ process_index' = a.process_index
    /\ current_time' = IdleAdvance(current_time)
    /\ current_process' = 0
    /\ idle_steps' = idle_steps + 1
    /\ UNCHANGED <<algorithm, args, quantum, processes, completed_processes,
                   gantt_data, simulation_running, process, pc, results,
                   error, window, earlier, consolidated>>

\* --------------------------------------------------- simulate_round_robin
\* Mutant of ExecTime: the whole quantum, whatever remains.
ExecTimeWholeQuantum(q, remaining_time) == q

\* Mutant of ExecTime: the slice lasts until the process has finished.
ExecTimeRemaining(q, remaining_time) == remaining_time

\* "Execute for quantum or remaining time, whichever is smaller".
ExecTime(q, remaining_time) == Min(q, remaining_time)

rr_dispatch ==
    /\ IterationStarts("rr")
    /\ LET a == AdmitArrivals(pcb, ready_queue, process_index, current_time) IN
         /\ a.ready_queue # <<>>
         /\ RecordMetrics(current_time, a.ready_queue)
         /\ LET p == Head(a.ready_queue) IN
              /\ ready_queue' = Tail(a.ready_queue)
              /\ pcb' = [FirstRun(a.pcb, p, current_time) EXCEPT ![p].state = "RUNNING"]
              /\ gantt_data' = Append(gantt_data,
                     <<current_time, p, ExecTime(quantum, pcb[p].remaining_time)>>)
              /\ process' = p
         /\ process_index' = a.process_index
    /\ pc' = "slice"
    /\ UNCHANGED <<algorithm, args, quantum, processes, completed_processes,
                   simulation_running, current_time, current_process,
                   idle_steps, results, error, window, earlier, consolidated>>

\* Mutant of rr_execute: a process that has finished is queued again.
rr_execute_requeue ==
    /\ SliceRuns("rr")
    /\ LET exec_time == ExecTime(quantum, pcb[process].remaining_time)
           P == [pcb EXCEPT ![process].remaining_time = @ - exec_time]
           t == current_time + exec_time
           a == AdmitArrivals(P, ready_queue, process_index, t) IN
         /\ current_time' = t
         /\ process_index' = a.process_index
         /\ IF a.pcb[process].remaining_time = 0
            THEN /\ pcb' = Complete(a.pcb, process, t)
                 /\ completed_processes' = Append(completed_processes, process)
                 /\ ready_queue' = Append(a.ready_queue, process)
            ELSE /\ pcb' = [a.pcb EXCEPT ![process].state = "READY"]
                 /\ ready_queue' = Append(a.ready_queue, process)
                 /\ UNCHANGED completed_processes
    /\ process' = 0
    /\ pc' = "loop"
    /\ UNCHANGED <<algorithm, args, quantum, processes, time_points,
                   ready_queue_data, gantt_data, simulation_running,
                   current_process, idle_steps, results, error, window,
                   earlier, consolidated>>

\* Mutant of rr_execute: the preempted process goes to the head of the queue.
rr_execute_front ==
    /\ SliceRuns("rr")
    /\ LET exec_time == ExecTime(quantum, pcb[process].remaining_time)
           P == [pcb EXCEPT ![process].remaining_time = @ - exec_time]
           t == current_time + exec_time
           a == AdmitArrivals(P, ready_queue, process_index, t) IN
         /\ current_time' = t
         /\ process_index' = a.process_index
         /\ IF a.pcb[process].remaining_time = 0
            THEN /\ pcb' = Complete(a.pcb, process, t)
                 /\ completed_processes' = Append(completed_processes, process)
                 /\ ready_queue' = a.ready_queue
            ELSE /\ pcb' = [a.pcb EXCEPT ![process].state = "READY"]
                 /\ ready_queue' = <<process>> \o a.ready_queue
                 /\ UNCHANGED completed_processes
    /\ process' = 0
    /\ pc' = "loop"
    /\ UNCHANGED <<algorithm, args, quantum, processes, time_points,
                   ready_queue_data, gantt_data, simulation_running,
                   current_process, idle_steps, results, error, window,
                   earlier, consolidated>>

rr_execute ==
    /\ SliceRuns("rr")
    /\ LET exec_time == ExecTime(quantum, pcb[process].remaining_time)
           P == [pcb EXCEPT ![process].remaining_time = @ - exec_time]
           t == current_time + exec_time
           a == AdmitArrivals(P, ready_queue, process_index, t) IN
         /\ current_time' = t
         /\ process_index' = a.process_index
         /\ IF a.pcb[process].remaining_time = 0
            THEN /\ pcb' = Complete(a.pcb, process, t)
                 /\ completed_processes' = Append(completed_processes, process)
                 /\ ready_queue' = a.ready_queue
            ELSE /\ pcb' = [a.pcb EXCEPT ![process].state = "READY"]
                 /\ ready_queue' = Append(a.ready_queue, process)
                 /\ UNCHANGED completed_processes
    /\ process' = 0
    /\ pc' = "loop"
    /\ UNCHANGED <<algorithm, args, quantum, processes, time_points,
                   ready_queue_data, gantt_data, simulation_running,
                   current_process, idle_steps, results, error, window,
                   earlier, consolidated>>

rr_idle ==
    /\ IterationStarts("rr")
    /\ LET a == AdmitArrivals(pcb, ready_queue, process_index, current_time) IN
         /\ a.ready_queue = <<>>
         /\ RecordMetrics(current_time, a.ready_queue)
         /\ pcb' = a.pcb
         /\ ready_queue' = a.ready_queue
         /\ process_index' = a.process_index
    /\ current_time' = IdleAdvance(current_time)
    /\ idle_steps' = idle_steps + 1
    /\ UNCHANGED <<algorithm, args, quantum, processes, completed_processes,
                   gantt_data, simulation_running, current_process, process,
                   pc, results, error, window, earlier, consolidated>>

\* ------------------------------------------------------ simulate_priority
\* Mutant of PriorityKey: the queue is sorted by burst time.
PriorityKeyBurst(P) == [i \in DOMAIN P |-> P[i].burst_time]

\* "ready_queue.sort(key=lambda p: p.priority)"
PriorityKey(P) == [i \in DOMAIN P |-> P[i].priority]

\* "if preemptive and current_process: ready_queue.append(current_process)"
PriorityRequeue(q, preemptive) ==
    IF preemptive /\ current_process # 0 THEN Append(q, current_process) ELSE q

priority_dispatch(preemptive) ==
    /\ IterationStarts(IF preemptive THEN "priority_preemptive" ELSE "priority")
    /\ LET a == AdmitArrivals(pcb, ready_queue, process_index, current_time)
           q == PriorityRequeue(a.ready_queue, preemptive) IN
         /\ q # <<>>
         /\ RecordMetrics(current_time, q)
         /\ LET sorted == StableSort(q, PriorityKey(a.pcb))
                p == Head(sorted) IN
              /\ ready_queue' = Tail(sorted)
              /\ pcb' = [FirstRun(a.pcb, p, current_time) EXCEPT ![p].state = "RUNNING"]
              /\ gantt_data' = Append(gantt_data,
                     <<current_time, p, IF preemptive THEN 1 ELSE pcb[p].burst_time>>)
              /\ process' = p
         /\ process_index' = a.process_index
    /\ pc' = "slice"
    /\ UNCHANGED <<algorithm, args, quantum, processes, completed_processes,
                   simulation_running, current_time, current_process,
                   idle_steps, results, error, window, earlier, consolidated>>

priority_execute(preemptive) ==
    /\ SliceRuns(IF preemptive THEN "priority_preemptive" ELSE "priority")
    /\ IF preemptive
       THEN /\ current_time' = current_time + 1
            /\ LET P == [pcb EXCEPT ![process].remaining_time = @ - 1] IN
                 IF P[process].remaining_time = 0
                 THEN /\ pcb' = Complete(P, process, current_time')
                      /\ completed_processes' = Append(completed_processes, process)
                      /\ current_process' = 0
                 ELSE /\ pcb' = P
                      /\ current_process' = process
                      /\ UNCHANGED completed_processes
       ELSE /\ current_time' = current_time + pcb[process].burst_time
            /\ pcb' = Complete(pcb, process, current_time')
            /\ completed_processes' = Append(completed_processes, process)
            /\ UNCHANGED current_process
    /\ process' = 0
    /\ pc' = "loop"
    /\ UNCHANGED <<algorithm, args, quantum, processes, time_points,
                   ready_queue_data, gantt_data, simulation_running,
                   ready_queue, process_index, idle_steps, results,
                   error, window, earlier, consolidated>>

priority_idle(preemptive) ==
    /\ IterationStarts(IF preemptive THEN "priority_preemptive" ELSE "priority")
    /\ LET a == AdmitArrivals(pcb, ready_queue, process_index, current_time)
           q == PriorityRequeue(a.ready_queue, preemptive) IN
         /\ q = <<>>
         /\ RecordMetrics(current_time, q)
         /\ pcb' = a.pcb
         /\ ready_queue' = q
         /\ process_index' = a.process_index
    /\ current_time' = IdleAdvance(current_time)
    /\ current_process' = IF preemptive THEN 0 ELSE current_process
    /\ idle_steps' = idle_steps + 1
    /\ UNCHANGED <<algorithm, args, quantum, processes, completed_processes,
                   gantt_data, simulation_running, process, pc, results,
                   error, window, earlier, consolidated>>

priority_np_dispatch == priority_dispatch(FALSE)
priority_np_execute == priority_execute(FALSE)
priority_np_idle == priority_idle(FALSE)
priority_p_dispatch == priority_dispatch(TRUE)
priority_p_execute == priority_execute(TRUE)
priority_p_idle == priority_idle(TRUE)

\* --------------------------------------------- loop exit and show_results
\* The while condition is false, or the cancellation check breaks.
loop_exit ==
    /\ pc = "loop"
    /\ ~(LoopCondition /\ simulation_running)
    /\ pc' = "finished"
    /\ UNCHANGED <<algorithm, args, quantum, run_data, simulation_running,
                   loop_locals, idle_steps, results, error, window, earlier,
                   consolidated>>

Field(ids, f) == [i \in DOMAIN ids |-> pcb[ids[i]][f]]

\* Mutant of Metrics: the empty completed list is not told apart, and sums
\* and counts of nothing are reported.
MetricsOfNothing ==
    [shown |-> TRUE, no_data |-> FALSE,
     throughput |-> Len(completed_processes),
     waiting_sum |-> SumSeq(Field(completed_processes, "waiting_time")),
     turnaround_sum |-> SumSeq(Field(completed_processes, "turnaround_time")),
     response_sum |-> SumSeq(SelectSeq(Field(completed_processes, "response_time"),
                                       LAMBDA r : r # None)),
     response_count |-> Len(SelectSeq(Field(completed_processes, "response_time"),
                                      LAMBDA r : r # None)),
     total_time |-> IF completed_processes = <<>> THEN 0
                    ELSE MaxSeq(Field(completed_processes, "completion_time")),
     total_burst |-> SumSeq(Field(completed_processes, "burst_time")),
     context_switches |-> Len(gantt_data)]

\* "Calculate metrics": the means as sum and count, the utilization as its
\* two terms.
Metrics ==
    IF completed_processes = <<>>
    THEN [shown |-> TRUE, no_data |-> TRUE]
    ELSE [shown |-> TRUE, no_data |-> FALSE,
          throughput |-> Len(completed_processes),
          waiting_sum |-> SumSeq(Field(completed_processes, "waiting_time")),
          turnaround_sum |-> SumSeq(Field(completed_processes, "turnaround_time")),
          response_sum |-> SumSeq(SelectSeq(Field(completed_processes, "response_time"),
                                            LAMBDA r : r # None)),
          response_count |-> Len(SelectSeq(Field(completed_processes, "response_time"),
                                           LAMBDA r : r # None)),
          total_time |-> MaxSeq(Field(completed_processes, "completion_time")),
          total_burst |-> SumSeq(Field(completed_processes, "burst_time")),
          context_switches |-> Len(gantt_data)]

\* Mutant of Adjoins: slices of one process are joined across a gap.
AdjoinsAcrossGap(current, slice) == slice[2] = current[2]

\* "if pid == current_pid and start == current_start + current_duration":
\* the slice continues the segment current.
Adjoins(current, slice) ==
    /\ slice[2] = current[2]
    /\ slice[1] = current[1] + current[3]

\* The loop of plot_gantt_chart from slice i on, with the segment in
\* progress and the segments saved so far.
RECURSIVE ConsolidateFrom(_, _, _, _)
ConsolidateFrom(g, i, current, saved) ==
    IF i > Len(g)
    THEN Append(saved, current)
    ELSE IF Adjoins(current, g[i])
    THEN ConsolidateFrom(g, i + 1,
                         <<current[1], current[2], current[3] + g[i][3]>>,
                         saved)
    ELSE ConsolidateFrom(g, i + 1, g[i], Append(saved, current))

\* "Consolidate consecutive executions of same process".
Consolidate(g) ==
    IF g = <<>> THEN <<>> ELSE ConsolidateFrom(g, 2, g[1], <<>>)

\* show_results: the report, and with completed processes the flag, the
\* buttons and the Gantt chart (plot_gantt_chart on self.gantt_data).
show_results ==
    /\ pc = "finished"
    /\ window = "open"
    /\ results' = Metrics
    /\ simulation_running' = IF completed_processes = <<>>
                             THEN simulation_running ELSE FALSE
    /\ consolidated' = IF completed_processes = <<>>
                       THEN consolidated ELSE Consolidate(gantt_data)
    /\ pc' = "results"
    /\ UNCHANGED <<algorithm, args, quantum, run_data, loop_locals,
                   idle_steps, error, window, earlier>>

\* ---------------------------------------------------------- specification
Next ==
    \/ RejectInput
    \/ start_simulation
    \/ run_simulation
    \/ fcfs_dispatch \/ fcfs_execute \/ fcfs_idle
    \/ sjf_dispatch \/ sjf_execute \/ sjf_idle
    \/ srtf_dispatch \/ srtf_execute \/ srtf_idle
    \/ rr_dispatch \/ rr_execute \/ rr_idle
    \/ priority_np_dispatch \/ priority_np_execute \/ priority_np_idle
    \/ priority_p_dispatch \/ priority_p_execute \/ priority_p_idle
    \/ loop_exit
    \/ show_results

Spec == Init /\ [][Next]_vars

\* The steps of the simulation thread inside the policy's loop.
LoopStep ==
    \/ fcfs_dispatch \/ fcfs_execute \/ fcfs_idle
    \/ sjf_dispatch \/ sjf_execute \/ sjf_idle
    \/ srtf_dispatch \/ srtf_execute \/ srtf_idle
    \/ rr_dispatch \/ rr_execute \/ rr_idle
    \/ priority_np_dispatch \/ priority_np_execute \/ priority_np_idle
    \/ priority_p_dispatch \/ priority_p_execute \/ priority_p_idle
    \/ loop_exit

\* A thread in its loop keeps being scheduled: every time.sleep of the loop
\* returns and nothing else blocks.
FairSpec == Spec /\ WF_vars(LoopStep)

\* The run, and start_simulation rejecting its input once the run's results
\* are on display.
StartNext == Next \/ RejectInputAfterRun

StartSpec == Init /\ [][StartNext]_vars

\* ------------------------------------------------------------ cancellation
\* The Stop button, enabled from start_simulation until stop_simulation or
\* the end of show_results: the flag is cleared and nothing else of the run
\* is touched.
stop_simulation ==
    /\ window = "open"
    /\ earlier = NoThread
    /\ simulation_running
    /\ simulation_running' = FALSE
    /\ UNCHANGED <<algorithm, args, quantum, run_data, loop_locals, pc,
                   idle_steps, results, error, window, earlier, consolidated>>

\* The window is closed: the flag is cleared, the simulation thread is
\* waited for for at most a second, in which it may take further steps,
\* then the window is destroyed and no callback of it runs any more.
on_closing ==
    /\ window = "open"
    /\ earlier = NoThread
    /\ simulation_running' = FALSE
    /\ window' = "destroyed"
    /\ UNCHANGED <<algorithm, args, quantum, run_data, loop_locals, pc,
                   idle_steps, results, error, earlier, consolidated>>

\* The run with the Stop button and the closing of the window.
StopNext == Next \/ stop_simulation \/ on_closing

StopSpec == Init /\ [][StopNext]_vars

\* ------------------------------------------------------------------ reset
\* reset_simulation, at any moment: stop_simulation, reset_data, which binds
\* the five lists to new empty lists, and clear_plots.  The thread, if one
\* is alive, is not waited for: it keeps its position, its locals and the
\* Process objects it holds.
reset_simulation ==
    /\ window = "open"
    /\ earlier = NoThread
    /\ simulation_running' = FALSE
    /\ processes' = <<>>
    /\ completed_processes' = <<>>
    /\ time_points' = <<>>
    /\ ready_queue_data' = <<>>
    /\ gantt_data' = <<>>
    /\ consolidated' = <<>>
    /\ UNCHANGED <<algorithm, args, quantum, pcb, loop_locals, pc, idle_steps,
                   results, error, window, earlier>>

\* The runs with the Stop and Reset buttons and the closing of the window.
ResetNext == StopNext \/ reset_simulation

ResetSpec == Init /\ [][ResetNext]_vars

\* ----------------------------------------------------------- a second run
\* What the entry fields hold when Start is pressed while the thread of the
\* run before is alive: the ranges of DefaultFields with the largest process
\* count of the bounds.
RestartFields == {[DefaultFields EXCEPT !.num_processes = MaxProcs]}

\* The two threads of a restart: the one of the stopped run and the one the
\* second start_simulation creates.
OtherRun(run) == IF run = "stopped" THEN "new" ELSE "stopped"

\* The arguments, locals and position of the thread the model is following,
\* which is the thread of the given run.
ThreadContext(run) ==
    [run |-> run, pc |-> pc, args |-> args, quantum |-> quantum,
     ready_queue |-> ready_queue, current_time |-> current_time,
     process_index |-> process_index, current_process |-> current_process,
     process |-> process]

\* start_simulation on accepted fields, with the policy left as it is, after
\* stop_simulation has enabled the Start button and while the thread of the
\* stopped run sleeps at the end of an iteration or before it schedules
\* show_results.  reset_data binds the five lists to new empty lists; the
\* Process objects of the stopped run stay, the sleeping thread holds them.
\* The new thread is the one followed from here, the sleeping one is kept
\* in earlier.
start_simulation_again ==
    /\ window = "open"
    /\ ~simulation_running
    /\ pc \in {"loop", "finished"}
    /\ earlier = NoThread
    /\ Len(pcb) <= MaxProcs
    /\ \A i \in DOMAIN pcb : pcb[i].burst_time <= MaxBurst
    /\ \E f \in RestartFields :
         /\ ValidationError(f) = ""
         /\ args' = f
    /\ earlier' = ThreadContext("stopped")
    /\ processes' = <<>>
    /\ completed_processes' = <<>>
    /\ time_points' = <<>>
    /\ ready_queue_data' = <<>>
    /\ gantt_data' = <<>>
    /\ simulation_running' = TRUE
    /\ error' = ""
    /\ ready_queue' = <<>>
    /\ current_time' = 0
    /\ process_index' = 0
    /\ current_process' = 0
    /\ process' = 0
    /\ pc' = "generate"
    /\ UNCHANGED <<algorithm, quantum, pcb, idle_steps, results, window,
                   consolidated>>

\* The scheduler of the threads: the thread followed has started, sleeps
\* (time.sleep at the end of an iteration or before show_results is
\* scheduled) or has ended, and the other thread, which sleeps too, runs
\* next.
switch_thread ==
    /\ earlier # NoThread
    /\ earlier.pc \in {"generate", "loop", "finished"}
    /\ pc \in {"generate", "loop", "finished", "results"}
    /\ pc' = earlier.pc
    /\ args' = earlier.args
    /\ quantum' = earlier.quantum
    /\ ready_queue' = earlier.ready_queue
    /\ current_time' = earlier.current_time
    /\ process_index' = earlier.process_index
    /\ current_process' = earlier.current_process
    /\ process' = earlier.process
    /\ earlier' = ThreadContext(OtherRun(earlier.run))
    /\ UNCHANGED <<algorithm, run_data, simulation_running, idle_steps,
                   results, error, window, consolidated>>

\* The runs with the Stop button, the closing of the window and one second
\* start while the thread of the first run is alive.
RestartNext == StopNext \/ start_simulation_again \/ switch_thread

RestartSpec == Init /\ [][RestartNext]_vars

\* ------------------------------------------------- the Gantt chart alone
\* The values a slice is drawn from: a start within the arrival bound, the
\* first or the last process id, the smallest or the largest burst.
SliceValues == (0..MaxArrival) \X {1, MaxProcs} \X {1, MaxBurst}

\* The lists of slices the chart is drawn for, up to one slice more than
\* there are processes.
SliceLists == UNION {[1..n -> SliceValues] : n \in 0..(MaxProcs + 1)}

\* plot_gantt_chart called on a list of slices.
plot_gantt_chart ==
    /\ pc = "plot"
    /\ consolidated' = Consolidate(gantt_data)
    /\ pc' = "plotted"
    /\ UNCHANGED <<algorithm, args, quantum, run_data, simulation_running,
                   loop_locals, idle_steps, results, error, window, earlier>>

PlotInit ==
    /\ algorithm = "fcfs"
    /\ args = NoArgs
    /\ quantum = 0
    /\ pcb = <<>>
    /\ processes = <<>>
    /\ completed_processes = <<>>
    /\ time_points = <<>>
    /\ ready_queue_data = <<>>
    /\ gantt_data \in SliceLists
    /\ simulation_running = FALSE
    /\ ready_queue = <<>>
    /\ current_time = 0
    /\ process_index = 0
    /\ current_process = 0
    /\ process = 0
    /\ pc = "plot"
    /\ idle_steps = 0
    /\ results = NoResults
    /\ error = ""
    /\ window = "open"
    /\ earlier = NoThread
    /\ consolidated = <<>>

PlotSpec == PlotInit /\ [][plot_gantt_chart]_vars

\* ================================================================ claims
\* The policy's loop has exited.
LoopExited == pc \in {"finished", "results"}

\* The policies that run a process in bounded slices.
SlicedPolicies == {"srtf", "rr", "priority_preemptive"}

\* The generated input is the test vector ex.
InputIs(ex) ==
    /\ Len(pcb) = Len(ex)
    /\ \A i \in DOMAIN ex :
         pcb[i].arrival_time = ex[i][1] /\ pcb[i].burst_time = ex[i][2]

Occurrences(s, x) == Cardinality({k \in DOMAIN s : s[k] = x})

Durations == [k \in DOMAIN gantt_data |-> gantt_data[k][3]]

\* C1: in an uncancelled run of any policy, when the loop exits every
\* process of the input is in completed_processes exactly once and is
\* TERMINATED with its completion_time set, and a completion_time once set
\* is never assigned another value.
C1_EveryProcessCompletesOnce ==
    [][/\ LoopExited' =>
            /\ Len(completed_processes') = Len(processes')
            /\ \A i \in DOMAIN pcb' :
                 /\ Occurrences(processes', i) = 1
                 /\ Occurrences(completed_processes', i) = 1
                 /\ pcb'[i].state = "TERMINATED"
                 /\ pcb'[i].completion_time # None
       /\ \A i \in DOMAIN pcb :
            pcb[i].completion_time # None =>
                /\ i \in DOMAIN pcb'
                /\ pcb'[i].completion_time = pcb[i].completion_time
      ]_vars

\* A preemptive run of two processes or more has exited after more slices
\* than processes.
C1_Witness ==
    /\ pc = "finished"
    /\ algorithm \in SlicedPolicies
    /\ Len(completed_processes) >= 2
    /\ Len(gantt_data) > Len(completed_processes)

\* C2 as stated: under every policy a TERMINATED process has
\* remaining_time = 0.
C2_TerminatedHasNoRemainingTime ==
    \A i \in DOMAIN pcb :
        pcb[i].state = "TERMINATED" => pcb[i].remaining_time = 0

\* C2 amended: remaining_time never increases and never goes below 0; a
\* process TERMINATED under SRTF, Round Robin or preemptive Priority has
\* remaining_time = 0, and under FCFS, SJF and non-preemptive Priority
\* remaining_time is never written: it stays equal to burst_time.
C2_RemainingTimeBySlicing ==
    [][\A i \in DOMAIN pcb' :
          /\ pcb'[i].remaining_time >= 0
          /\ i \in DOMAIN pcb => pcb'[i].remaining_time <= pcb[i].remaining_time
          /\ algorithm' \in SlicedPolicies /\ pcb'[i].state = "TERMINATED"
                => pcb'[i].remaining_time = 0
          /\ algorithm' \in SlicedPolicies /\ pcb'[i].remaining_time = 0
                => pcb'[i].state = "TERMINATED"
          /\ algorithm' \notin SlicedPolicies
                => pcb'[i].remaining_time = pcb'[i].burst_time
      ]_vars

\* A Round Robin run ended in which a process needed more than one slice.
C2_Witness ==
    /\ pc = "finished"
    /\ algorithm = "rr"
    /\ \E i \in DOMAIN pcb :
         /\ pcb[i].state = "TERMINATED"
         /\ pcb[i].remaining_time = 0
         /\ Cardinality({k \in DOMAIN gantt_data : gantt_data[k][2] = i}) >= 2

\* C3: when an uncancelled run has exited its loop, the durations of the
\* recorded slices plus the number of idle iterations equal the largest
\* completion_time.
C3_ConservationOfTime ==
    LoopExited /\ completed_processes # <<>> =>
        SumSeq(Durations) + idle_steps
            = MaxSeq(Field(completed_processes, "completion_time"))

\* A run with idle iterations and slices of two processes has exited.
C3_Witness ==
    /\ pc = "finished"
    /\ idle_steps >= 2
    /\ Len(completed_processes) >= 2

\* C4: in an uncancelled run on accepted fields the clock strictly
\* increases on every loop iteration, and a run that has entered its loop
\* eventually exits it with every process completed.
C4_RunTerminates ==
    /\ [][(pc \in {"loop", "slice"} /\ pc' = "loop") => (current_time' > current_time)]_vars
    /\ (pc = "loop") ~> (pc = "finished"
                          /\ Len(completed_processes) = Len(processes)
                          /\ processes # <<>>)

\* A run that had idle iterations and slices has left its loop.
C4_Witness ==
    /\ pc = "finished"
    /\ idle_steps >= 1
    /\ Len(gantt_data) >= 3
    /\ Len(completed_processes) = Len(processes)

\* C5: under SRTF, preemptive Priority and Round Robin, start_time and
\* response_time are unset until the process is first dispatched, are set
\* at that dispatch to the clock and to the clock minus the arrival time,
\* and never change afterwards.
C5_StartTimeSetOnce ==
    [][algorithm' \in SlicedPolicies =>
        \A i \in DOMAIN pcb' :
            /\ (i \in DOMAIN pcb /\ pcb[i].start_time # None) =>
                  /\ pcb'[i].start_time = pcb[i].start_time
                  /\ pcb'[i].response_time = pcb[i].response_time
            /\ (i \in DOMAIN pcb /\ pcb[i].start_time = None
                    /\ pcb'[i].start_time # None) =>
                  /\ pc' = "slice" /\ process' = i
                  /\ pcb'[i].start_time = current_time
                  /\ pcb'[i].response_time = current_time - pcb[i].arrival_time
            /\ (pc' = "slice" /\ process' = i) => pcb'[i].start_time # None
            /\ (pcb'[i].start_time = None) =
                  (\A k \in DOMAIN gantt_data' : gantt_data'[k][2] # i)
            /\ (pcb'[i].start_time = None) = (pcb'[i].response_time = None)
      ]_vars

\* Under SRTF or preemptive Priority a process has been dispatched, has
\* lost the CPU to another one and has been dispatched again.
C5_Witness ==
    /\ algorithm \in {"srtf", "priority_preemptive"}
    /\ \E i \in DOMAIN pcb :
         \E a, b, c \in DOMAIN gantt_data :
            /\ a < b /\ b < c
            /\ gantt_data[a][2] = i /\ gantt_data[b][2] # i /\ gantt_data[c][2] = i
            /\ pcb[i].start_time < gantt_data[c][1]

\* C6: every completed process has turnaround_time = completion_time -
\* arrival_time, waiting_time = turnaround_time - burst_time >= 0 and
\* completion_time >= arrival_time + burst_time, so the sums behind the
\* average waiting and turnaround times are never negative.
C6_TurnaroundAndWaiting ==
    /\ \A k \in DOMAIN completed_processes :
         LET r == pcb[completed_processes[k]] IN
            /\ r.turnaround_time = r.completion_time - r.arrival_time
            /\ r.waiting_time = r.turnaround_time - r.burst_time
            /\ r.waiting_time >= 0
            /\ r.completion_time >= r.arrival_time + r.burst_time
    /\ (results.shown /\ ~results.no_data) =>
            /\ results.waiting_sum >= 0
            /\ results.turnaround_sum >= results.waiting_sum
            /\ results.turnaround_sum > 0

\* The results of a run of two processes or more, one of which waited.
C6_Witness ==
    /\ results.shown /\ ~results.no_data
    /\ results.throughput >= 2
    /\ results.waiting_sum > 0
    /\ \E k \in DOMAIN completed_processes :
         pcb[completed_processes[k]].start_time > pcb[completed_processes[k]].arrival_time

\* C7: every completed process has start_time and response_time set, with
\* response_time = start_time - arrival_time >= 0, so show_results takes the
\* average response time over as many values as completed processes.
C7_ResponseTimeSet ==
    /\ \A k \in DOMAIN completed_processes :
         LET r == pcb[completed_processes[k]] IN
            /\ r.start_time # None
            /\ r.response_time # None
            /\ r.response_time = r.start_time - r.arrival_time
            /\ r.response_time >= 0
    /\ (results.shown /\ ~results.no_data) =>
            /\ results.response_count = results.throughput
            /\ results.response_count >= 1
            /\ results.response_sum >= 0

\* The results of a run in which a process had to wait for its first
\* dispatch.
C7_Witness ==
    /\ results.shown /\ ~results.no_data
    /\ results.response_sum > 0
    /\ results.response_count = Len(processes)

\* C8: FCFS completes the processes in arrival order, equal arrivals in id
\* order, each in one slice that starts at the later of the previous
\* completion and its own arrival and lasts its burst time; on the input
\* [(1,0,5),(2,1,3)] the completion times are 5 and 8 and the waiting times
\* 0 and 4.
C8_FcfsOrder ==
    algorithm = "fcfs" =>
        /\ \A k \in DOMAIN completed_processes :
             LET r == pcb[completed_processes[k]]
                 before == IF k = 1 THEN 0
                           ELSE pcb[completed_processes[k - 1]].completion_time
             IN /\ r.start_time = Max(before, r.arrival_time)
                /\ r.completion_time = r.start_time + r.burst_time
                /\ gantt_data[k] = <<r.start_time, r.process_id, r.burst_time>>
                /\ k > 1 =>
                     LET prev == pcb[completed_processes[k - 1]] IN
                        \/ prev.arrival_time < r.arrival_time
                        \/ /\ prev.arrival_time = r.arrival_time
                           /\ prev.process_id < r.process_id
        /\ (LoopExited /\ InputIs(FCFSExample)) =>
             /\ pcb[1].completion_time = 5 /\ pcb[2].completion_time = 8
             /\ pcb[1].waiting_time = 0 /\ pcb[2].waiting_time = 4

\* FCFS has finished the test vector.
C8_Witness ==
    /\ algorithm = "fcfs"
    /\ pc = "finished"
    /\ InputIs(FCFSExample)
    /\ completed_processes = <<1, 2>>

\* C9: at every SJF dispatch the process taken has the least burst_time of
\* the processes that have arrived and are not completed, and it runs to
\* completion in that one slice; on the input [(1,0,8),(2,1,4),(3,2,9),
\* (4,3,5)] the execution order is P1, P2, P4, P3.
C9_SjfShortestFirst ==
    algorithm = "sjf" =>
        /\ pc = "slice" =>
             /\ pcb[process].arrival_time <= current_time
             /\ \A j \in DOMAIN pcb :
                  (pcb[j].arrival_time <= current_time /\ pcb[j].state # "TERMINATED")
                      => pcb[process].burst_time <= pcb[j].burst_time
             /\ Last(gantt_data) = <<current_time, process, pcb[process].burst_time>>
        /\ \A k \in DOMAIN completed_processes :
             LET r == pcb[completed_processes[k]] IN
                /\ r.completion_time = r.start_time + r.burst_time
                /\ gantt_data[k] = <<r.start_time, r.process_id, r.burst_time>>
        /\ (LoopExited /\ InputIs(SJFExample)) =>
             /\ completed_processes = <<1, 2, 4, 3>>
             /\ [k \in DOMAIN gantt_data |-> gantt_data[k][2]] = <<1, 2, 4, 3>>

\* SJF dispatches P4 of the test vector while the longer P3 is ready.
C9_Witness ==
    /\ algorithm = "sjf"
    /\ pc = "slice"
    /\ InputIs(SJFExample)
    /\ process = 4
    /\ pcb[3].state = "READY"

\* C10 as stated: SJF on [(1,0,8),(2,1,4),(3,2,9),(4,3,5)] gives an average
\* waiting time of 6.0: the four waiting times sum to 24.
C10_SjfAverageWaitingIsSix ==
    (algorithm = "sjf" /\ InputIs(SJFExample) /\ results.shown) =>
        /\ ~results.no_data
        /\ results.throughput = 4
        /\ results.waiting_sum = 6 * results.throughput

\* C10 amended: SJF on that input gives waiting times 0, 7, 15 and 9 for P1
\* to P4: a sum of 31 over 4 processes, an average of 7.75.
C10_SjfAverageWaiting ==
    (algorithm = "sjf" /\ InputIs(SJFExample) /\ results.shown) =>
        /\ ~results.no_data
        /\ results.throughput = 4
        /\ results.waiting_sum = 31
        /\ Field(<<1, 2, 3, 4>>, "waiting_time") = <<0, 7, 15, 9>>

\* show_results has run after SJF on the test vector.
C10_Witness ==
    /\ algorithm = "sjf"
    /\ pc = "results"
    /\ InputIs(SJFExample)
    /\ results.shown /\ ~results.no_data

\* The slices recorded for process i, in the order of their recording.
SlicesOf(i) == SelectSeq(gantt_data, LAMBDA g : g[2] = i)

\* The total duration of the slices recorded for process i.
SliceTotal(i) == SumSeq([k \in DOMAIN SlicesOf(i) |-> SlicesOf(i)[k][3]])

\* C11: under Round Robin each slice lasts min(quantum, remaining_time) of
\* the process it is recorded for, the slices of a process add up to the
\* part of its burst it has executed and so to exactly its burst_time once
\* it has terminated, a process whose burst exceeds the quantum has been
\* preempted (has two slices or more) by then, and with quantum 3 on
\* [(1,0,10),(2,1,4),(3,2,5)] P1 runs a first slice of 3, another process
\* runs after it, and the slices of P1 total 10.
C11_RoundRobinSlices ==
    algorithm = "rr" =>
        /\ pc = "slice" =>
             /\ Last(gantt_data)[2] = process
             /\ Last(gantt_data)[3] = Min(quantum, pcb[process].remaining_time)
             /\ Last(gantt_data)[3] >= 1
        /\ \A i \in DOMAIN pcb :
             /\ SliceTotal(i) =
                    (pcb[i].burst_time - pcb[i].remaining_time)
                    + (IF pc = "slice" /\ process = i
                       THEN Last(gantt_data)[3] ELSE 0)
             /\ pcb[i].state = "TERMINATED" =>
                    /\ SliceTotal(i) = pcb[i].burst_time
                    /\ pcb[i].burst_time > quantum => Len(SlicesOf(i)) >= 2
        /\ (LoopExited /\ InputIs(RRExample) /\ quantum = 3) =>
             /\ SliceTotal(1) = 10
             /\ SlicesOf(1)[1][3] = 3
             /\ \E k \in DOMAIN gantt_data : \E m \in DOMAIN gantt_data :
                  /\ k < m
                  /\ gantt_data[k][2] # 1
                  /\ gantt_data[m][2] = 1

\* Round Robin with quantum 3 has completed the three-process test vector.
C11_Witness ==
    /\ algorithm = "rr"
    /\ LoopExited
    /\ quantum = 3
    /\ InputIs(RRExample)
    /\ Len(SlicesOf(1)) = 4

\* C12: under Round Robin, when a slice ends with remaining_time > 0 the
\* ready queue becomes: the processes that were waiting, in their order,
\* then the processes that arrived during the slice, in arrival order, then
\* the preempted process, READY again, at the tail.
C12_RoundRobinRequeueOrder ==
    [][(/\ algorithm = "rr"
        /\ pc = "slice"
        /\ pc' = "loop"
        /\ pcb'[process].remaining_time > 0) =>
           LET n == Len(ready_queue)
               m == Len(ready_queue')
               arrived == {i \in DOMAIN pcb :
                              /\ pcb[i].arrival_time > current_time
                              /\ pcb[i].arrival_time <= current_time'}
           IN  /\ m = n + Cardinality(arrived) + 1
               /\ SubSeq(ready_queue', 1, n) = ready_queue
               /\ {ready_queue'[k] : k \in (n + 1)..(m - 1)} = arrived
               /\ \A k \in (n + 1)..(m - 2) :
                    pcb[ready_queue'[k]].arrival_time
                        <= pcb[ready_queue'[k + 1]].arrival_time
               /\ ready_queue'[m] = process
               /\ pcb'[process].state = "READY"
      ]_vars

\* With quantum 1 on the three-process test vector the slice of P2 from 1
\* to 2 has ended: P1 was waiting, P3 arrived at 2, P2 was preempted.
C12_Witness ==
    /\ algorithm = "rr"
    /\ pc = "loop"
    /\ quantum = 1
    /\ InputIs(RRExample)
    /\ current_time = 2
    /\ ready_queue = <<1, 3, 2>>

\* The key a policy selects by: arrival time for FCFS, burst_time for SJF,
\* remaining_time for SRTF, priority for both Priority policies.
SelectionKey(i) ==
    CASE algorithm = "fcfs" -> pcb[i].arrival_time
      [] algorithm = "sjf" -> pcb[i].burst_time
      [] algorithm = "srtf" -> pcb[i].remaining_time
      [] OTHER -> pcb[i].priority

\* The policies that select by a key.
KeyedPolicies == Policies \ {"rr"}

\* The processes a selection that has just been made chose among: the one
\* dispatched and the ones left in the ready queue.
ReadyAtSelection == {process} \cup {ready_queue[k] : k \in DOMAIN ready_queue}

SelectionCandidates ==
    {ready_queue[k] : k \in DOMAIN ready_queue}
    \cup {i \in DOMAIN pcb :
             pcb[i].state = "NEW" /\ pcb[i].arrival_time <= current_time}
    \cup (IF current_process # 0 THEN {current_process} ELSE {})

\* The place of candidate i in the ready queue before it is sorted: the
\* waiting processes keep their places, the admitted ones follow in order of
\* arrival time and then id, the process that holds the CPU goes last.
QueuePlace(i) ==
    IF \E k \in DOMAIN ready_queue : ready_queue[k] = i
    THEN CHOOSE k \in DOMAIN ready_queue : ready_queue[k] = i
    ELSE IF i = current_process
    THEN Len(ready_queue) + (current_time + 1) * (Len(pcb) + 1) + 1
    ELSE Len(ready_queue) + pcb[i].arrival_time * (Len(pcb) + 1) + i

C14_SrtfSwitchesOnlyForShorter ==
    [][(/\ algorithm = "srtf"
        /\ pc = "loop"
        /\ pc' = "slice"
        /\ current_process # 0
        /\ pcb[current_process].remaining_time > 0
        /\ process' # current_process) =>
           pcb[process'].remaining_time < pcb[current_process].remaining_time
      ]_vars

\* C15: under preemptive Priority the CPU goes from the process that ran in
\* the previous time unit, and is unfinished, to another process only if
\* that process has a strictly lower priority value: two unfinished
\* processes of equal priority never alternate unit by unit.
C15_PrioritySwitchesOnlyForHigher ==
    [][(/\ algorithm = "priority_preemptive"
        /\ pc = "loop"
        /\ pc' = "slice"
        /\ current_process # 0
        /\ pcb[current_process].remaining_time > 0
        /\ process' # current_process) =>
           pcb[process'].priority < pcb[current_process].priority
      ]_vars

\* The step is a whole loop iteration that found the ready queue empty: it
\* has sampled the queue and is back at the loop top without a dispatch.
IdleIteration ==
    /\ pc = "loop"
    /\ pc' = "loop"
    /\ Len(time_points') = Len(time_points) + 1

\* Process i has arrived by time t and has not terminated.
ArrivedUnfinished(i, t) ==
    pcb[i].arrival_time <= t /\ pcb[i].state # "TERMINATED"

\* C16: in every policy a loop iteration that finds the ready queue empty
\* advances the clock by exactly 1, appends no slice to gantt_data and
\* changes no process record, and it happens only when no process that has
\* arrived is unfinished.
C16_IdleIteration ==
    [][IdleIteration =>
           /\ current_time' = current_time + 1
           /\ gantt_data' = gantt_data
           /\ pcb' = pcb
           /\ completed_processes' = completed_processes
           /\ Last(ready_queue_data') = 0
           /\ \A i \in DOMAIN pcb : ~ArrivedUnfinished(i, current_time)
      ]_vars

\* The CPU has idled between the completion of one process and the arrival
\* of the next.
C16_Witness ==
    /\ pc = "loop"
    /\ idle_steps >= 1
    /\ completed_processes # <<>>
    /\ Len(completed_processes) < Len(processes)
    /\ ready_queue = <<>>
    /\ current_time > pcb[Last(completed_processes)].completion_time

\* C17: at every selection point of every policy the ready queue, the
\* selected process still counted in, holds exactly the processes with
\* arrival_time <= clock that are not TERMINATED, each exactly once; and
\* each process is admitted (NEW to READY, in the order of the
\* arrival-sorted list) exactly once: no process returns to NEW, and the
\* admitted ones are always the processes before process_index in the list.
C17_ReadyQueueContents ==
    [][/\ pc' = "slice" =>
            /\ ReadyAtSelection' =
                   {i \in DOMAIN pcb' :
                       /\ pcb'[i].arrival_time <= current_time'
                       /\ pcb'[i].state # "TERMINATED"}
            /\ Occurrences(ready_queue', process') = 0
            /\ \A i \in DOMAIN pcb' : Occurrences(ready_queue', i) <= 1
       /\ IdleIteration => ready_queue' = <<>>
       /\ (pc \in {"loop", "slice"} /\ pc' \in {"loop", "slice"}) =>
            /\ process_index' >= process_index
            /\ \A i \in DOMAIN pcb :
                 /\ pcb[i].state # "NEW" => pcb'[i].state # "NEW"
                 /\ (pcb[i].state = "NEW" /\ pcb'[i].state # "NEW") =>
                        /\ pcb'[i].state \in {"READY", "RUNNING"}
                        /\ pcb[i].arrival_time <= current_time'
            /\ {i \in DOMAIN pcb' : pcb'[i].state # "NEW"} =
                   {processes'[k] : k \in 1..process_index'}
      ]_vars

\* A selection under a preemptive policy has left in the ready queue a
\* process that has already run.
C17_Witness ==
    /\ pc = "slice"
    /\ algorithm \in {"srtf", "priority_preemptive"}
    /\ \E k \in DOMAIN ready_queue : pcb[ready_queue[k]].start_time # None
    /\ Len(ready_queue) >= 2

\* C18: termination is irrevocable: a process that is TERMINATED stays
\* TERMINATED, is not in the ready queue, is not dispatched and does not
\* hold the CPU again, keeps its completion_time, turnaround_time and
\* waiting_time, and has no slice that starts at or after its
\* completion_time.
C18_TerminationIrrevocable ==
    [][/\ \A i \in DOMAIN pcb :
            pcb[i].state = "TERMINATED" =>
                /\ i \in DOMAIN pcb'
                /\ pcb'[i].state = "TERMINATED"
                /\ pcb'[i].completion_time = pcb[i].completion_time
                /\ pcb'[i].turnaround_time = pcb[i].turnaround_time
                /\ pcb'[i].waiting_time = pcb[i].waiting_time
       /\ \A i \in DOMAIN pcb' :
            pcb'[i].state = "TERMINATED" =>
                /\ Occurrences(ready_queue', i) = 0
                /\ process' # i
                /\ current_process' # i
                /\ Occurrences(completed_processes', i) = 1
                /\ \A k \in DOMAIN gantt_data' :
                     gantt_data'[k][2] = i =>
                         gantt_data'[k][1] < pcb'[i].completion_time
      ]_vars

\* Under a preemptive policy a slice of another process has started at or
\* after the completion of a process that had been preempted.
C18_Witness ==
    /\ pc = "slice"
    /\ algorithm \in SlicedPolicies
    /\ \E i \in DOMAIN pcb :
         /\ pcb[i].state = "TERMINATED"
         /\ Len(SlicesOf(i)) >= 2
         /\ Last(gantt_data)[1] >= pcb[i].completion_time
         /\ Last(gantt_data)[2] # i

\* The entry fields hold one of the inputs start_simulation is to reject: a
\* non-numeric value, a minimum above its maximum, a process count outside
\* 1..100, a negative arrival time, a non-positive burst time, priority or
\* quantum, a burst maximum above 1000 or an arrival maximum above 10000.
RejectedFields(f) ==
    \/ ~f.numeric
    \/ f.arrival_min > f.arrival_max
    \/ f.burst_min > f.burst_max
    \/ f.priority_min > f.priority_max
    \/ f.num_processes \notin 1..MaxNumProcesses
    \/ f.arrival_min < 0
    \/ f.burst_min <= 0
    \/ f.priority_min <= 0
    \/ f.quantum <= 0
    \/ f.burst_max > MaxBurstAllowed
    \/ f.arrival_max > MaxArrivalAllowed

\* The validation finds an error in exactly the rejected inputs.
RejectedFieldsGetAnError ==
    \A f \in EntryFields : RejectedFields(f) <=> ValidationError(f) # ""

\* C20: start_simulation shows an error box for exactly the rejected
\* inputs; the step that shows it leaves processes, completed_processes,
\* gantt_data, time_points, ready_queue_data and simulation_running as they
\* were and starts no simulation thread; and the step that starts a thread
\* has accepted fields and shows no error.
C20_RejectionChangesNothing ==
    [][/\ RejectedFieldsGetAnError
       /\ (error' # error /\ error' # "") =>
            /\ pcb' = pcb
            /\ processes' = processes
            /\ completed_processes' = completed_processes
            /\ gantt_data' = gantt_data
            /\ time_points' = time_points
            /\ ready_queue_data' = ready_queue_data
            /\ simulation_running' = simulation_running
            /\ pc' = pc
            /\ args' = args
       /\ (pc # "generate" /\ pc' = "generate") =>
            /\ ~RejectedFields(args')
            /\ error' = ""
      ]_vars

\* An input has been rejected while the data of a finished run is on
\* display.
C20_Witness ==
    /\ pc = "results"
    /\ error # ""
    /\ gantt_data # <<>>
    /\ completed_processes # <<>>
    /\ ~simulation_running

\* start_simulation finds an error in every entry with a quantum <= 0.
NonPositiveQuantumIsAnError ==
    \A f \in EntryFields : f.quantum <= 0 => ValidationError(f) # ""

\* C21: Round Robin is never simulated with quantum <= 0: a non-positive
\* quantum is an error of start_simulation, no thread is started with one,
\* simulate_round_robin runs with quantum >= 1 only, and every Round Robin
\* slice lasts between 1 and quantum.
C21_QuantumIsPositive ==
    [][/\ NonPositiveQuantumIsAnError
       /\ pc' = "generate" => args'.quantum >= 1
       /\ (algorithm' = "rr" /\ pc' \in {"loop", "slice", "finished"}) =>
            /\ quantum' >= 1
            /\ \A k \in DOMAIN gantt_data' :
                 gantt_data'[k][3] \in 1..quantum'
      ]_vars

\* Round Robin with a quantum above 1 has recorded a slice of a whole
\* quantum and a shorter one.
C21_Witness ==
    /\ algorithm = "rr"
    /\ pc = "slice"
    /\ quantum >= 2
    /\ \E k \in DOMAIN gantt_data : gantt_data[k][3] = quantum
    /\ \E k \in DOMAIN gantt_data : gantt_data[k][3] < quantum

\* C22: for every parameter set that start_simulation accepts,
\* generate_processes returns exactly num_processes records with the ids
\* 1..n, each once, listed by non-decreasing arrival time, with an
\* arrival_time >= 0 within the arrival range, remaining_time equal to
\* burst_time, and a burst_time within the burst range, whose minimum is at
\* least 1: no draw is below 1, so the max(1, burst_time) clamp alters none.
C22_GeneratedProcesses ==
    [][(pc = "generate" /\ pc' = "loop") =>
           /\ ValidationError(args) = ""
           /\ args.burst_min >= 1
           /\ args.arrival_min >= 0
           /\ Len(pcb') = args.num_processes
           /\ Len(processes') = args.num_processes
           /\ \A i \in DOMAIN pcb' :
                /\ pcb'[i].process_id = i
                /\ Occurrences(processes', i) = 1
                /\ pcb'[i].arrival_time \in args.arrival_min..args.arrival_max
                /\ pcb'[i].burst_time \in args.burst_min..args.burst_max
                /\ pcb'[i].remaining_time = pcb'[i].burst_time
                /\ pcb'[i].priority \in args.priority_min..args.priority_max
                /\ pcb'[i].state = "NEW"
           /\ \A k \in 1..(Len(processes') - 1) :
                pcb'[processes'[k]].arrival_time
                    <= pcb'[processes'[k + 1]].arrival_time
      ]_vars

\* generate_processes has returned a list whose order by arrival time is not
\* the order of the ids.
C22_Witness ==
    /\ pc = "loop"
    /\ gantt_data = <<>>
    /\ time_points = <<>>
    /\ Len(processes) >= 2
    /\ processes[1] > processes[2]

\* C23: show_results on an empty completed_processes reports the no-data
\* message and computes no mean, maximum or quotient, leaves the flag and
\* the data of the run alone, and show_results never takes a mean over no
\* values: whenever it computes, at least one process has completed and at
\* least one response time is set.
C23_NoDataWhenNothingCompleted ==
    [][(pc = "finished" /\ pc' = "results") =>
           /\ completed_processes = <<>> =>
                /\ results' = [shown |-> TRUE, no_data |-> TRUE]
                /\ simulation_running' = simulation_running
           /\ completed_processes # <<>> =>
                /\ ~results'.no_data
                /\ results'.throughput >= 1
                /\ results'.response_count >= 1
                /\ results'.total_time >= 1
           /\ run_data' = run_data
      ]_vars

\* The results of a run that was stopped after its first slice was recorded
\* and before any process had completed.
C23_Witness ==
    /\ pc = "results"
    /\ results.shown
    /\ results.no_data
    /\ gantt_data # <<>>
    /\ completed_processes = <<>>
    /\ ~simulation_running

\* C24: in every run, complete or cancelled part-way, the burst times of the
\* completed processes add up to at most the largest completion_time among
\* them, at any moment and in what show_results computes: the utilization
\* is at most 100 before the cap.
C24_UtilizationAtMostHundred ==
    /\ completed_processes # <<>> =>
         SumSeq(Field(completed_processes, "burst_time"))
             <= MaxSeq(Field(completed_processes, "completion_time"))
    /\ (results.shown /\ ~results.no_data) =>
         results.total_burst <= results.total_time

\* The thread of the stopped run is the one taking the steps: the thread
\* parked before and after the step is the one of the new run.
StoppedThreadSteps ==
    /\ earlier # NoThread
    /\ earlier.run = "new"
    /\ earlier' = earlier

\* C25: runs are isolated: after stop_simulation followed by
\* start_simulation the thread of the stopped run never starts another
\* iteration of its loop (from the top of the loop it only leaves) and never
\* changes the processes, the completed list, the slices or the two series of
\* samples of the new run.
C25_RunsAreIsolated ==
    [][StoppedThreadSteps =>
         /\ pc = "loop" => pc' = "finished"
         /\ UNCHANGED <<processes, completed_processes, gantt_data,
                        time_points, ready_queue_data>>]_vars

\* The flag is False and the step leaves it False.
StaysCancelled == ~simulation_running /\ ~simulation_running'

\* One list is the other with entries added at its end.
IsPrefix(s, t) == Len(s) <= Len(t) /\ \A i \in DOMAIN s : s[i] = t[i]

\* C26: cooperative cancellation, in the runs with Stop and the closing of
\* the window: while simulation_running is False and stays False, a thread at
\* the top of its loop only leaves the loop, with the clock and every list as
\* they are, and a thread inside an iteration finishes that iteration: the
\* clock goes to the end of the slice recorded last, no slice is added and
\* the completed list grows by at most the process of that slice.
C26_CooperativeCancellation ==
    [][StaysCancelled =>
         /\ pc = "loop" =>
              /\ pc' \in {"loop", "finished"}
              /\ UNCHANGED <<run_data, loop_locals>>
         /\ pc = "slice" =>
              /\ pc' \in {"slice", "loop"}
              /\ pc' = "loop" =>
                   current_time' = Last(gantt_data)[1] + Last(gantt_data)[3]
              /\ gantt_data' = gantt_data
              /\ IsPrefix(completed_processes, completed_processes')
              /\ Len(completed_processes') <= Len(completed_processes) + 1
         /\ pc \in {"finished", "results"} =>
              UNCHANGED <<gantt_data, completed_processes, current_time>>]_vars

\* A run cancelled part-way whose thread has left the loop: slices are
\* recorded, a process is completed, another is not, and the clock stands at
\* the end of the last slice.
C26_Witness ==
    /\ pc = "finished"
    /\ ~simulation_running
    /\ gantt_data # <<>>
    /\ completed_processes # <<>>
    /\ Len(completed_processes) < Len(processes)
    /\ current_time = Last(gantt_data)[1] + Last(gantt_data)[3]

\* C27: under every policy, while a recorded slice executes, the state of
\* its process is RUNNING.
C27_RunningDuringSlice ==
    pc = "slice" => pcb[process].state = "RUNNING"

\* The policies that run a dispatched process to its end.
NonPreemptivePolicies == {"fcfs", "sjf", "priority"}

\* C28: FCFS, SJF and non-preemptive Priority never preempt: no process has
\* two slices; every slice starts at its process's start_time and lasts its
\* burst_time; the slices are those of the completed processes, in order,
\* each ending at the completion_time, and one more while it executes; and
\* when the loop is left by completion every process has its slice.
C28_OneSlicePerProcess ==
    algorithm \in NonPreemptivePolicies =>
        /\ \A i, j \in DOMAIN gantt_data :
             gantt_data[i][2] = gantt_data[j][2] => i = j
        /\ \A i \in DOMAIN gantt_data :
             /\ gantt_data[i][1] = pcb[gantt_data[i][2]].start_time
             /\ gantt_data[i][3] = pcb[gantt_data[i][2]].burst_time
        /\ Len(gantt_data) =
             Len(completed_processes) + (IF pc = "slice" THEN 1 ELSE 0)
        /\ \A i \in DOMAIN completed_processes :
             /\ gantt_data[i][2] = completed_processes[i]
             /\ gantt_data[i][1] + gantt_data[i][3]
                  = pcb[completed_processes[i]].completion_time
        /\ pc = "slice" => Last(gantt_data)[2] = process
        /\ pc \in {"finished", "results"} =>
             \A k \in DOMAIN processes :
                 \E i \in DOMAIN gantt_data : gantt_data[i][2] = processes[k]

\* A finished non-preemptive run in which a process waited for the CPU: it
\* was ready before the slice ahead of it ended and has one slice, from the
\* end of that slice.
C28_Witness ==
    /\ algorithm \in NonPreemptivePolicies
    /\ pc = "finished"
    /\ Len(gantt_data) = MaxProcs
    /\ Len(completed_processes) = MaxProcs
    /\ gantt_data[2][1] = gantt_data[1][1] + gantt_data[1][3]
    /\ pcb[gantt_data[2][2]].arrival_time < gantt_data[2][1]
    /\ gantt_data[1][3] = MaxBurst

\* C29: under SRTF, in every time unit in which a process executes, its
\* remaining_time at the start of the unit is at most that of every process
\* that has arrived by then and has not terminated.
C29_SrtfRunsShortestRemaining ==
    (algorithm = "srtf" /\ pc = "slice") =>
        \A i \in DOMAIN pcb :
            ArrivedUnfinished(i, current_time) =>
                pcb[process].remaining_time <= pcb[i].remaining_time

\* An SRTF time unit given to a process while another one, which has run
\* before and is not finished, has more left.
C29_Witness ==
    /\ algorithm = "srtf"
    /\ pc = "slice"
    /\ \E i \in DOMAIN pcb :
         /\ i # process
         /\ ArrivedUnfinished(i, current_time)
         /\ pcb[i].start_time # None
         /\ pcb[process].start_time = current_time
         /\ pcb[process].remaining_time < pcb[i].remaining_time

\* The two Priority policies.
PriorityPolicies == {"priority", "priority_preemptive"}

\* C30: under both Priority policies the process selected at a scheduling
\* decision has a priority value at most that of every process that has
\* arrived by then and has not terminated; the preemptive variant decides at
\* every time unit, the other one at every dispatch.
C30_PriorityRunsHighest ==
    (algorithm \in PriorityPolicies /\ pc = "slice") =>
        \A i \in DOMAIN pcb :
            ArrivedUnfinished(i, current_time) =>
                pcb[process].priority <= pcb[i].priority

\* A Priority decision that passes over a process of lower priority (a
\* larger value) that has arrived earlier and is not finished.
C30_Witness ==
    /\ algorithm \in PriorityPolicies
    /\ pc = "slice"
    /\ \E i \in DOMAIN pcb :
         /\ i # process
         /\ ArrivedUnfinished(i, current_time)
         /\ pcb[i].arrival_time < pcb[process].arrival_time
         /\ pcb[process].priority < pcb[i].priority

\* The step starts a loop iteration: from the top of the loop it dispatches
\* a process or finds the queue empty and comes back.
IterationStep ==
    /\ pc = "loop"
    /\ pc' \in {"loop", "slice"}
    /\ <<current_time, gantt_data>>' # <<current_time, gantt_data>>

\* C31: in a single run every loop iteration records one sample before its
\* selection and nothing else records one: the two series have the same
\* length, the sample is taken at the clock value of the iteration and is
\* the number of processes that have arrived by then and are not
\* terminated, and the clock values sampled increase strictly.
C31_OneSamplePerIteration ==
    [][/\ Len(time_points') = Len(ready_queue_data')
       /\ IterationStep =>
            /\ time_points' = Append(time_points, current_time)
            /\ Len(ready_queue_data') = Len(ready_queue_data) + 1
            /\ Last(ready_queue_data') =
                 Cardinality({i \in DOMAIN pcb :
                                 ArrivedUnfinished(i, current_time)})
            /\ time_points # <<>> => Last(time_points) < current_time
       /\ (pc \in {"loop", "slice"} /\ ~IterationStep) =>
            UNCHANGED <<time_points, ready_queue_data>>]_vars

\* An SRTF iteration has sampled a queue of two, the process that holds the
\* CPU among them, after an earlier sample.
C31_Witness ==
    /\ algorithm = "srtf"
    /\ pc = "slice"
    /\ Len(time_points) >= 2
    /\ Last(ready_queue_data) = 2
    /\ current_process # 0
    /\ pcb[current_process].remaining_time < pcb[current_process].burst_time
    /\ \E k \in DOMAIN ready_queue_data : ready_queue_data[k] = 0

\* The total duration of the entries of the list s recorded for process i.
TotalOf(s, i) == SumSeq([k \in DOMAIN s |-> IF s[k][2] = i THEN s[k][3] ELSE 0])

\* The list c is the list g with runs of neighbours joined: every slice of g
\* goes, in order, into one segment of c; a slice shares the segment of the
\* slice before it only if it is of the same process and starts where that
\* one ends; a segment starts with its first slice, is of its process and
\* lasts as long as its slices together.
IsMergeOf(c, g) ==
    IF g = <<>>
    THEN c = <<>>
    ELSE \E f \in [DOMAIN g -> DOMAIN c] :
           /\ f[1] = 1
           /\ f[Len(g)] = Len(c)
           /\ \A i \in 2..Len(g) :
                \/ f[i] = f[i - 1] + 1
                \/ /\ f[i] = f[i - 1]
                   /\ g[i][2] = g[i - 1][2]
                   /\ g[i][1] = g[i - 1][1] + g[i - 1][3]
           /\ \A k \in DOMAIN c :
                LET first == CHOOSE i \in DOMAIN g :
                                 f[i] = k /\ \A j \in DOMAIN g : f[j] = k => i <= j
                IN  /\ c[k][1] = g[first][1]
                    /\ c[k][2] = g[first][2]
                    /\ c[k][3] = SumSeq([i \in DOMAIN g |->
                                            IF f[i] = k THEN g[i][3] ELSE 0])

\* C32: the consolidation of plot_gantt_chart joins only consecutive slices
\* of the same process without a gap between them, keeps the order of the
\* segments and, for every process, the total duration, and leaves
\* gantt_data as it is.
C32_ConsolidationMergesNeighbours ==
    [][pc = "plot" =>
         /\ IsMergeOf(consolidated', gantt_data)
         /\ \A s \in SliceValues :
                TotalOf(consolidated', s[2]) = TotalOf(gantt_data, s[2])
         /\ gantt_data' = gantt_data]_vars

\* A chart drawn for three slices of one process: the first two are joined,
\* the third, which does not start where they end, is a segment of its own.
C32_Witness ==
    /\ pc = "plotted"
    /\ Len(gantt_data) = 3
    /\ Len(consolidated) = 2
    /\ gantt_data[3][2] = gantt_data[1][2]
    /\ consolidated[1][3] = gantt_data[1][3] + gantt_data[2][3]
    /\ consolidated[2] = gantt_data[3]

\* C33: in a single run of any policy the slices of gantt_data are in the
\* order of their start times and do not overlap, each starting at or after
\* the end of the one before it, and no slice starts before its process has
\* arrived.
C33_SlicesInOrder ==
    /\ \A i \in DOMAIN gantt_data :
         /\ i > 1 => gantt_data[i][1] >= gantt_data[i - 1][1] + gantt_data[i - 1][3]
         /\ gantt_data[i][1] >= pcb[gantt_data[i][2]].arrival_time

\* A run with a slice that follows the one before it at once and a slice
\* that follows an idle gap, of a process that starts on its arrival.
C33_Witness ==
    /\ Len(gantt_data) >= 3
    /\ \E i, j \in 2..Len(gantt_data) :
         /\ gantt_data[i][1] = gantt_data[i - 1][1] + gantt_data[i - 1][3]
         /\ gantt_data[j][1] > gantt_data[j - 1][1] + gantt_data[j - 1][3]
         /\ gantt_data[j][1] = pcb[gantt_data[j][2]].arrival_time

\* The processes whose state is RUNNING.
RunningProcesses == {i \in DOMAIN pcb : pcb[i].state = "RUNNING"}

\* C34: at every point of a run, under every policy, at most one process is
\* in state RUNNING, and while a slice executes no process but its own is.
C34_AtMostOneRunning ==
    /\ Cardinality(RunningProcesses) <= 1
    /\ pc = "slice" => RunningProcesses \subseteq {process}

\* The step clears simulation_running.
FlagCleared == simulation_running /\ ~simulation_running'

\* C35: simulation_running of a run goes from True to False before all the
\* run's processes have completed only by stop_simulation, reset_simulation
\* or on_closing (steps of the window, which leave the thread and the report
\* where they are), and never by a step of the thread of an earlier run,
\* whose show_results comes after the next run has started.
C35_EndedEarlyOnlyByRequest ==
    [][FlagCleared =>
         /\ \/ UNCHANGED <<pc, results>>
            \/ Len(completed_processes) = Len(processes)
         /\ ~StoppedThreadSteps]_vars

\* The five lists of a run are empty.
ListsEmpty ==
    /\ processes = <<>>
    /\ completed_processes = <<>>
    /\ gantt_data = <<>>
    /\ time_points = <<>>
    /\ ready_queue_data = <<>>

\* reset_simulation has returned while the thread of the run was past the
\* generation of its processes, and nothing has been added since.
AfterReset ==
    /\ ~simulation_running
    /\ pc \in {"loop", "slice", "finished", "results"}
    /\ ListsEmpty

\* C36: once reset_simulation has returned, the five lists stay empty (no
\* start_simulation follows in these runs), wherever the thread was when
\* Reset was pressed.
C36_ResetStaysEmpty ==
    [][AfterReset => ListsEmpty']_vars

\* The slice before slice j that is of the same process (0: there is none).
PreviousSlice(j) ==
    LET same == {i \in 1..(j - 1) : gantt_data[i][2] = gantt_data[j][2]}
    IN  IF same = {} THEN 0 ELSE CHOOSE i \in same : \A k \in same : k <= i

\* The clock value at which the process of slice j entered the ready queue
\* to wait for that slice: the end of its slice before, or its arrival.
QueuedAt(j) ==
    IF PreviousSlice(j) = 0
    THEN pcb[gantt_data[j][2]].arrival_time
    ELSE gantt_data[PreviousSlice(j)][1] + gantt_data[PreviousSlice(j)][3]

\* The slices other processes received while the process of slice j waited
\* in the ready queue for it.
SlicesWaitedFor(j) ==
    {k \in (PreviousSlice(j) + 1)..(j - 1) : gantt_data[k][1] >= QueuedAt(j)}

\* The processes that have arrived by clock value t and are not finished at
\* t, as the records tell.
UnfinishedAt(t) ==
    {i \in DOMAIN pcb :
        /\ pcb[i].arrival_time <= t
        /\ pcb[i].completion_time = None \/ pcb[i].completion_time > t}

\* C37: Round Robin is fair: while a process waits in the ready queue for a
\* slice (from its slice before, or from its arrival), no other process
\* receives two slices, and the slices it waits for are at most the number
\* of processes that were arrived and unfinished when it was queued, less
\* itself.
C37_RoundRobinFair ==
    algorithm = "rr" =>
        \A j \in DOMAIN gantt_data :
            /\ \A k, l \in SlicesWaitedFor(j) :
                   gantt_data[k][2] = gantt_data[l][2] => k = l
            /\ Cardinality(SlicesWaitedFor(j))
                   <= Cardinality(UnfinishedAt(QueuedAt(j))) - 1

\* A Round Robin run in which a preempted process received its next slice
\* after every other process had one.
C37_Witness ==
    /\ algorithm = "rr"
    /\ \E j \in DOMAIN gantt_data :
         /\ PreviousSlice(j) # 0
         /\ Cardinality(SlicesWaitedFor(j)) = MaxProcs - 1
         /\ Cardinality(UnfinishedAt(QueuedAt(j))) = MaxProcs

\* C38: for every completed process, under every policy, the response time
\* is at most the waiting time, which is to say that the process completes
\* no earlier than its start plus its burst; under FCFS, SJF and
\* non-preemptive Priority the two are equal.
C38_ResponseAtMostWaiting ==
    \A k \in DOMAIN completed_processes :
        LET p == pcb[completed_processes[k]] IN
            /\ p.response_time <= p.waiting_time
            /\ p.start_time + p.burst_time <= p.completion_time
            /\ algorithm \in NonPreemptivePolicies =>
                 /\ p.response_time = p.waiting_time
                 /\ p.start_time + p.burst_time = p.completion_time

\* Two completed processes: one that waited after its first slice, so that
\* its waiting time exceeds its response time, and one that did not.
C38_Witness ==
    /\ pc = "finished"
    /\ \E k, l \in DOMAIN completed_processes :
         /\ pcb[completed_processes[k]].response_time
              < pcb[completed_processes[k]].waiting_time
         /\ pcb[completed_processes[l]].response_time
              = pcb[completed_processes[l]].waiting_time
         /\ pcb[completed_processes[l]].response_time > 0

====
